---- MODULE Spec2Model ----
(***************************************************************************)
(* A model of the ky_spider financial-report scraper.                      *)
(*                                                                         *)
(*   SpecCrawl      the pagination loop (scraper.py, web_scraping.py)      *)
(*   SpecLongCrawl  the same loop on sites near the 1000-page ceiling      *)
(*   SpecSplit      the section splitters (scraper.py, data_processing.py, *)
(*                  table.py, processor.py)                                *)
(*   SpecAssemble   the column-wise concatenation of a category's pages    *)
(*   SpecAlign      the date alignment of per-source tables (processor.py) *)
(*   SpecAlignLists the alignment of a list and of the list reversed       *)
(*   SpecRun        one run from the command-line or the web entry point   *)
(*   SpecCombine    a source's categories stacked, the sources aligned     *)
(*   SpecSource     the crawl of one source page with several categories   *)
(*   SpecNorm       the Chinese-number normalizer, applied once and twice  *)
(*   SpecWeb        the web application's requests and worker threads      *)
(*                                                                         *)
(* Text is a sequence of code points, so that str.strip, str.endswith,     *)
(* str.contains and Python's string order are computed, not assumed.       *)
(* A cell is a record [k, v]: k is "null", "num" or "str" and v a sequence *)
(* of naturals (the number, or the code points of the text).               *)
(***************************************************************************)
EXTENDS Integers, Sequences, FiniteSets, TLC

VARIABLES
    \* ---- the pagination crawl
    variant,        \* "scraper" (scraper.py) or "repo" (web_scraping.py)
    site,           \* the page being driven: [window, last, endBtn]
    cpc,            \* the crawl's position
    html_pages,     \* the snapshots captured so far
    page_count,     \* the loop's counter
    fingerprint,    \* current_html, the container markup before the click
    clicks,         \* how many times the control was clicked
    returned,       \* what the crawl handed to its caller
    cerr,           \* the exception that left the crawl
    \* ---- the pure stages
    fpc,            \* position of the stage under check
    split_in,       \* [rule, labels, tds]: the splitter's input
    split_out,      \* [err, sections]
    pages_in,       \* the decoded pages of one category
    assembled,      \* [err, table]
    url_dataframes, \* the aligner's input
    result_df,      \* the aligner's output
    \* ---- one run
    entry,          \* "cli" or "web"
    rpc,            \* the run's position
    scraped_data,   \* what scraper.run() gave back to the entry point
    url_tables,     \* the per-URL tables built by the scraper
    final_df,       \* the table the scraper is about to save
    written,        \* the tables handed to to_excel, in order
    run_err,        \* the exception in flight, "none" if none
    outcome,        \* exit code (cli) or task status (web)
    \* ---- the numeric normalizer
    npc,            \* position of the normalizer under check
    norm_in,        \* [variant, table]: the normalizer's input
    norm_out,       \* [err, table]: the result of one application
    norm_again,     \* [err, table]: the result of applying it once more
    \* ---- the aligner on a list and on the list reversed
    reversed_df,    \* the aligner's output for the reversed list
    \* ---- the web application (web_app.py)
    requests,       \* the POST /scrape requests handled so far
    response,       \* the last response: [kind, task]
    tasks,          \* task id -> "absent" or its 'status'
    thread_pc,      \* task id -> where its process_urls thread stands
    task_urls,      \* task id -> the number of URLs of the request
    url_index,      \* task id -> the URLs its scrape_data loop has done
    now,            \* the wall clock, in seconds
    filename,       \* task id -> the second its file name is made from
    files,          \* the writes of output files: [task, file]
    \* ---- one source page and its configured categories (config.py)
    spc,            \* the crawl's position
    config_tables,  \* config.tables: one TableConfig per category
    view,           \* the category the page displays: [category, window, last]
    shots,          \* the snapshots captured: [category, window]
    clicked         \* the selectors clicked, in order

crawlVars == <<variant, site, cpc, html_pages, page_count, fingerprint,
               clicks, returned, cerr>>
stageVars == <<fpc, split_in, split_out, pages_in, assembled,
               url_dataframes, result_df>>
runVars   == <<entry, rpc, scraped_data, url_tables, final_df, written,
               run_err, outcome>>
normVars  == <<npc, norm_in, norm_out, norm_again>>
pairVars  == <<reversed_df>>
webVars   == <<requests, response, tasks, thread_pc, task_urls, url_index,
               now, filename, files>>
srcVars   == <<spc, config_tables, view, shots, clicked>>
auxVars   == <<normVars, pairVars, webVars, srcVars>>
vars      == <<crawlVars, stageVars, runVars, auxVars>>

\* The value of a variable that a specification does not use.
Idle == "idle"

CrawlIdle == /\ variant = Idle /\ site = Idle /\ cpc = Idle /\ html_pages = Idle
             /\ page_count = Idle /\ fingerprint = Idle /\ clicks = Idle
             /\ returned = Idle /\ cerr = Idle
StageIdle == /\ fpc = Idle /\ split_in = Idle /\ split_out = Idle
             /\ pages_in = Idle /\ assembled = Idle
             /\ url_dataframes = Idle /\ result_df = Idle
RunIdle   == /\ entry = Idle /\ rpc = Idle /\ scraped_data = Idle
             /\ url_tables = Idle /\ final_df = Idle
             /\ written = Idle /\ run_err = Idle
             /\ outcome = Idle
NormIdle  == /\ npc = Idle /\ norm_in = Idle /\ norm_out = Idle
             /\ norm_again = Idle
PairIdle  == reversed_df = Idle
WebIdle   == /\ requests = Idle /\ response = Idle /\ tasks = Idle
             /\ thread_pc = Idle /\ task_urls = Idle /\ url_index = Idle
             /\ now = Idle /\ filename = Idle /\ files = Idle
SrcIdle   == /\ spc = Idle /\ config_tables = Idle /\ view = Idle
             /\ shots = Idle /\ clicked = Idle
AuxIdle   == NormIdle /\ PairIdle /\ WebIdle /\ SrcIdle

(***************************************************************************)
(* Text, as Python computes on it.                                         *)
(***************************************************************************)

\* The code point of the space character.
SPACE == 32

\* str.endswith
EndsWith(s, suffix) ==
    /\ Len(suffix) <= Len(s)
    /\ SubSeq(s, Len(s) - Len(suffix) + 1, Len(s)) = suffix

\* str.contains(sub, regex=False): sub occurs somewhere in s; the empty
\* text occurs in every text.
StrContains(s, sub) ==
    \E i \in 1..(Len(s) - Len(sub) + 1) : SubSeq(s, i, i + Len(sub) - 1) = sub

\* str.strip(): without the leading and the trailing whitespace.
RECURSIVE LStrip(_)
LStrip(s) == IF s # <<>> /\ Head(s) = SPACE THEN LStrip(Tail(s)) ELSE s
RECURSIVE RStrip(_)
RStrip(s) == IF s # <<>> /\ s[Len(s)] = SPACE
             THEN RStrip(SubSeq(s, 1, Len(s) - 1))
             ELSE s
Strip(s) == RStrip(LStrip(s))

\* Python's order on str: by code point, a proper prefix first.
RECURSIVE StrLess(_, _)
StrLess(a, b) ==
    IF b = <<>> THEN FALSE
    ELSE IF a = <<>> THEN TRUE
    ELSE IF Head(a) # Head(b) THEN Head(a) < Head(b)
    ELSE StrLess(Tail(a), Tail(b))

\* The rows a..b, as a list of row positions.
RowRange(a, b) == [k \in 1..(b - a + 1) |-> a + k - 1]

\* sorted(list(set(xs))) for a set of row positions.
SortedList(S) ==
    [i \in 1..Cardinality(S) |->
        CHOOSE x \in S : Cardinality({y \in S : y < x}) = i - 1]

\* The elements of a list.
Elems(xs) == {xs[i] : i \in DOMAIN xs}

\* The lists over S of length lo..hi.
ListsOf(S, lo, hi) == UNION {[1..n -> S] : n \in lo..hi}

(***************************************************************************)
(* The pagination crawl.                                                   *)
(***************************************************************************)

\* The largest number of further pages a modelled site offers.
MaxAdvances == 3

\* What query_selector(".zyzb_table .next") and is_visible() find.
\* "visible" is a control on display that takes a click; on the last window
\* the control is absent, hidden, or on display and disabled.
NextButton(s) == IF s.window < s.last THEN "visible" ELSE s.endBtn

\* next_button and next_button.is_visible(): a disabled control is visible.
FoundVisible(b) == b \in {"visible", "disabled"}

\* page.content(): the snapshot of the window on display.
Content(s) == s.window

\* No exception.
NoError == [type |-> "none", cause |-> "none"]

\* A wrapper that raises ScrapingException without 'from e'.
RaisedWithoutCause(v, e) ==
    IF v = "repo"
    THEN [type |-> "ScrapingException", cause |-> "none"]
    ELSE [type |-> e, cause |-> "none"]

\* The exception a caller of the crawl sees: scrape_financial_data in
\* web_scraping.py wraps every failure of _scrape_all_pages in
\* ScrapingException, raised 'from e', which keeps e as its __cause__.
Raised(v, e) ==
    IF v = "repo"
    THEN [type |-> "ScrapingException", cause |-> e]
    ELSE [type |-> e, cause |-> "none"]

CrawlInit ==
    /\ variant \in {"scraper", "repo"}
    /\ \E last \in 0..MaxAdvances, b \in {"absent", "hidden", "disabled"} :
           site = [window |-> 0, last |-> last, endBtn |-> b]
    /\ cpc = "start"
    /\ html_pages = <<>>
    /\ page_count = 0
    /\ fingerprint = -1
    /\ clicks = 0
    /\ returned = "nothing"
    /\ cerr = NoError
    /\ StageIdle
    /\ RunIdle
    /\ AuxIdle

\* goto(url) and wait_for_selector(table): the table shows up, or the wait
\* times out and the TimeoutError leaves the function.
LoadPage ==
    /\ cpc = "start"
    /\ \E loads \in BOOLEAN :
         IF loads
         THEN /\ cpc' = "capture"
              /\ UNCHANGED cerr
         ELSE /\ cpc' = "failed"
              /\ cerr' = Raised(variant, "TimeoutError")
    /\ UNCHANGED <<variant, site, html_pages, page_count, fingerprint,
                   clicks, returned, stageVars, runVars, auxVars>>

\* A crawl that looks for the control before it captures, and so never
\* captures the last window of a run of several.
CapturedUnlessLast(pages, s) ==
    IF pages # <<>> /\ ~FoundVisible(NextButton(s))
    THEN pages
    ELSE Append(pages, Content(s))

\* The list after html_pages.append(page.content()).
Captured(pages, s) == Append(pages, Content(s))

\* One pass of the loop head: capture, then look for the control; the loop is
\* left, and the list returned, when the control is absent or not visible.
CapturePage ==
    /\ cpc = "capture"
    /\ html_pages' = Captured(html_pages, site)
    /\ IF ~FoundVisible(NextButton(site))
       THEN /\ cpc' = "done"
            /\ returned' = html_pages'
       ELSE /\ cpc' = "locate"
            /\ UNCHANGED returned
    /\ UNCHANGED <<variant, site, page_count, fingerprint, clicks, cerr,
                   stageVars, runVars, auxVars>>

\* query_selector(container): gone, and the crawl raises; or its markup is
\* kept as the fingerprint.
LocateContainer ==
    /\ cpc = "locate"
    /\ \E present \in BOOLEAN :
         IF present
         THEN /\ fingerprint' = Content(site)
              /\ cpc' = "click"
              /\ UNCHANGED cerr
         ELSE /\ cpc' = "failed"
              /\ cerr' = Raised(variant,
                                IF variant = "repo"
                                THEN "DataIntegrityException"
                                ELSE "RuntimeError")
              /\ UNCHANGED fingerprint
    /\ UNCHANGED <<variant, site, html_pages, page_count, clicks, returned,
                   stageVars, runVars, auxVars>>

\* next_button.click(): the site shows the next window, or stays as it was.
\* On a disabled control the click waits for the control to be enabled and
\* times out (a disabled attribute), or is delivered and changes nothing (a
\* control disabled by its style alone).
ClickNext ==
    /\ cpc = "click"
    /\ clicks' = clicks + 1
    /\ IF NextButton(site) = "disabled"
       THEN /\ UNCHANGED site
            /\ \E delivered \in BOOLEAN :
                 IF delivered
                 THEN /\ cpc' = "wait"
                      /\ UNCHANGED cerr
                 ELSE /\ cpc' = "failed"
                      /\ cerr' = Raised(variant, "TimeoutError")
       ELSE /\ \E advances \in BOOLEAN :
                 site' = IF advances THEN [site EXCEPT !.window = @ + 1]
                         ELSE site
            /\ cpc' = "wait"
            /\ UNCHANGED cerr
    /\ UNCHANGED <<variant, html_pages, page_count, fingerprint, returned,
                   stageVars, runVars, auxVars>>

\* wait_for_function(innerHTML !== oldHtml): one wait, no retry.
WaitForChange ==
    /\ cpc = "wait"
    /\ IF Content(site) # fingerprint
       THEN /\ page_count' = page_count + 1
            /\ cpc' = "capture"
            /\ UNCHANGED cerr
       ELSE /\ cpc' = "failed"
            /\ cerr' = Raised(variant, "TimeoutError")
            /\ UNCHANGED page_count
    /\ UNCHANGED <<variant, site, html_pages, fingerprint, clicks, returned,
                   stageVars, runVars, auxVars>>

CrawlNext == \/ LoadPage
             \/ CapturePage
             \/ LocateContainer
             \/ ClickNext
             \/ WaitForChange

SpecCrawl == CrawlInit /\ [][CrawlNext]_vars

\* The windows 0..k in the order the site showed them.
WindowsUpTo(k) == [i \in 1..(k + 1) |-> i - 1]

\* C1: a crawl that ends successfully returns one snapshot when the control
\* was never found (never clicked), and after exactly k successful advances
\* returns the k+1 snapshots of the windows 0..k, in capture order.
C1_SnapshotPerWindow ==
    cpc = "done" =>
        /\ returned = WindowsUpTo(site.window)
        /\ Len(returned) = page_count + 1
        /\ (clicks = 0 => Len(returned) = 1)

\* C21: the crawl reaches for the control (the container's fingerprint, then
\* the click) only when the control can be interacted with; a control that
\* is on display but disabled ends the crawl successfully, never in a
\* failure.
C21_ClicksOnlyInteractable ==
    /\ cpc \in {"locate", "click"} => NextButton(site) = "visible"
    /\ (cpc = "failed" /\ html_pages # <<>>) => NextButton(site) # "disabled"

\* C1 witness: two successful advances, then no control: three snapshots.
C1_Witness ==
    /\ cpc = "done"
    /\ clicks = 2
    /\ site.window = 2
    /\ returned = <<0, 1, 2>>

\* The attempts the crawl has made at the advance it is on: clicks not yet
\* followed by a completed advance.
AdvanceAttempts == clicks - page_count

\* C12: a crawl fails at the wait for changed content only after it has
\* retried the advance up to the bound of 3 attempts; one failed wait alone
\* does not fail it.
C12_FailsOnlyAfterRetries ==
    (cpc = "failed" /\ AdvanceAttempts > 0) => AdvanceAttempts = 3

\* The exceptions a caller sees when the table never shows up after goto.
NavigationErrors == {Raised(v, "TimeoutError") : v \in {"scraper", "repo"}}

\* The crawl failed where it looks for the table container: a snapshot has
\* been captured and every click so far was followed by a completed advance.
FailedAtContainer ==
    cpc = "failed" /\ html_pages # <<>> /\ clicks = page_count

PAGE_CEILING == 1000

\* How far past the ceiling the modelled sources reach.
MaxBeyondCeiling == 1

\* validate_pagination_integrity(total_pages, expected_min_pages = 1): the
\* exception it raises, or "ok".
ValidatePaginationIntegrity(total_pages) ==
    IF total_pages < 1 THEN "DataIntegrityError"
    ELSE IF total_pages > PAGE_CEILING THEN "DataIntegrityError"
    ELSE "ok"

LongCrawlInit ==
    /\ variant \in {"scraper", "repo"}
    /\ \E last \in (PAGE_CEILING - 1)..(PAGE_CEILING + MaxBeyondCeiling) :
           site = [window |-> 0, last |-> last, endBtn |-> "absent"]
    /\ cpc = "start"
    /\ html_pages = <<>>
    /\ page_count = 0
    /\ fingerprint = -1
    /\ clicks = 0
    /\ returned = "nothing"
    /\ cerr = NoError
    /\ StageIdle
    /\ RunIdle
    /\ AuxIdle

\* scrape_data, after _scrape_single_url has returned: the list is checked
\* for emptiness and its length against the ceiling.  The repository
\* variant returns the list without a count check.
CheckPageCount ==
    /\ cpc = "done"
    /\ LET v == IF variant = "scraper"
                THEN (IF returned = <<>> THEN "DataIntegrityError"
                      ELSE ValidatePaginationIntegrity(Len(returned)))
                ELSE "ok"
       IN  IF v = "ok"
           THEN /\ cpc' = "accepted"
                /\ UNCHANGED cerr
           ELSE /\ cpc' = "failed"
                /\ cerr' = Raised(variant, v)
    /\ UNCHANGED <<variant, site, html_pages, page_count, fingerprint, clicks,
                   returned, stageVars, runVars, auxVars>>

LongCrawlNext == \/ LoadPage
                 \/ CapturePage
                 \/ LocateContainer
                 \/ ClickNext
                 \/ WaitForChange
                 \/ CheckPageCount

SpecLongCrawl == LongCrawlInit /\ [][LongCrawlNext]_vars

\* C11: the pagination loop makes at most 1000 iterations: a crawl never
\* completes more than 1000 advances, whatever the source offers.
C11_LoopStopsAtCeiling == page_count <= PAGE_CEILING

(***************************************************************************)
(* The section splitters.  A table is given by its first column (the row   *)
(* labels), which is all a splitter reads; a section is the list of the    *)
(* row positions df.iloc[start:end] keeps.                                 *)
(***************************************************************************)

\* The most rows of a table handed to a splitter.
MaxRows == 3
\* The most elements the marker selector matches in the markup.
MaxTds == 2

\* The suffix of a marker row's label under the structural rule.
IndicatorSuffix == <<25351, 26631>>
\* Row labels: "X", one ending with the suffix, one holding it elsewhere.
LabelTexts == {<<88>>, <<88, 25351, 26631>>, <<25351, 26631, 88>>}
\* Texts of the elements a marker selector matches.
TdTexts == {<<88, 25351, 26631>>, <<25351, 26631>>, <<89>>, <<>>}

\* df.iloc[start:end] for each start, the last one running to the end.
SliceAt(starts, n) ==
    [i \in 1..Len(starts) |->
        IF i < Len(starts)
        THEN RowRange(starts[i], starts[i + 1] - 1)
        ELSE RowRange(starts[i], n)]

\* Rows whose label ends with the indicator suffix, in row order.
IndicatorIndices(labels) ==
    SortedList({i \in DOMAIN labels : EndsWith(labels[i], IndicatorSuffix)})

\* scraper.py: the structural rule, each section validated as non-empty.
SplitByIndicatorsValidated(labels) ==
    LET n == Len(labels)
        idx == IndicatorIndices(labels)
        secs == SliceAt(idx, n)
    IN  IF n = 0
        THEN [err |-> "DataIntegrityError", sections |-> <<>>]
        ELSE IF idx = <<>>
        THEN [err |-> "none", sections |-> <<RowRange(1, n)>>]
        ELSE IF \E i \in DOMAIN secs : secs[i] = <<>>
        THEN [err |-> "DataIntegrityError", sections |-> <<>>]
        ELSE [err |-> "none", sections |-> secs]

\* data_processing.py: the structural rule without validation.
SplitByIndicators(labels) ==
    LET n == Len(labels)
        idx == IndicatorIndices(labels)
    IN  IF idx = <<>>
        THEN [err |-> "none", sections |-> <<RowRange(1, n)>>]
        ELSE [err |-> "none", sections |-> SliceAt(idx, n)]

\* The rows gathered for the matched elements, one after another:
\* split_indices.extend(df.index[matching_rows]) for each td.
RECURSIVE SplitIndices(_, _)
SplitIndices(labels, tds) ==
    IF tds = <<>> THEN <<>>
    ELSE SortedList({i \in DOMAIN labels : StrContains(labels[i], Head(tds))})
         \o SplitIndices(labels, Tail(tds))

\* An explicit-list splitter that falls back to one section when no row
\* matches a marker.
SplitBySelectorLenient(labels, selector, tds) ==
    LET n == Len(labels)
        raw == SplitIndices(labels, tds)
        idx == SortedList(Elems(raw))
    IN  IF ~selector \/ tds = <<>> \/ raw = <<>>
        THEN [err |-> "none", sections |-> <<RowRange(1, n)>>]
        ELSE [err |-> "none", sections |-> SliceAt(idx, n)]

\* An explicit-list splitter that slices at the gathered rows as they come,
\* without set() and sorted().
SplitBySelectorWithRepeats(labels, selector, tds) ==
    LET n == Len(labels)
        raw == SplitIndices(labels, tds)
    IN  IF ~selector
        THEN [err |-> "none", sections |-> <<RowRange(1, n)>>]
        ELSE IF tds = <<>>
        THEN [err |-> "RuntimeError", sections |-> <<>>]
        ELSE IF raw = <<>>
        THEN [err |-> "RuntimeError", sections |-> <<>>]
        ELSE [err |-> "none", sections |-> SliceAt(raw, n)]

\* table.py and processor.py: the explicit marker list.
SplitBySelector(labels, selector, tds) ==
    LET n == Len(labels)
        raw == SplitIndices(labels, tds)
        idx == SortedList(Elems(raw))
    IN  IF ~selector
        THEN [err |-> "none", sections |-> <<RowRange(1, n)>>]
        ELSE IF tds = <<>>
        THEN [err |-> "RuntimeError", sections |-> <<>>]
        ELSE IF raw = <<>>
        THEN [err |-> "RuntimeError", sections |-> <<>>]
        ELSE [err |-> "none", sections |-> SliceAt(idx, n)]

SplitInit ==
    /\ fpc = "ready"
    /\ \E labels \in ListsOf(LabelTexts, 1, MaxRows) :
          \/ \E r \in {"indicators_validated", "indicators"} :
                split_in = [rule |-> r, labels |-> labels,
                            selector |-> FALSE, tds |-> <<>>]
          \/ \E sel \in BOOLEAN, tds \in ListsOf(TdTexts, 0, MaxTds) :
                split_in = [rule |-> "selector", labels |-> labels,
                            selector |-> sel, tds |-> tds]
    /\ split_out = "pending"
    /\ pages_in = Idle /\ assembled = Idle
    /\ url_dataframes = Idle /\ result_df = Idle
    /\ CrawlIdle
    /\ RunIdle
    /\ AuxIdle

SplitUnchanged == UNCHANGED <<split_in, pages_in, assembled, url_dataframes,
                              result_df, crawlVars, runVars, auxVars>>

RunSplitByIndicatorsValidated ==
    /\ fpc = "ready" /\ split_in.rule = "indicators_validated"
    /\ split_out' = SplitByIndicatorsValidated(split_in.labels)
    /\ fpc' = "done"
    /\ SplitUnchanged

RunSplitByIndicators ==
    /\ fpc = "ready" /\ split_in.rule = "indicators"
    /\ split_out' = SplitByIndicators(split_in.labels)
    /\ fpc' = "done"
    /\ SplitUnchanged

RunSplitBySelector ==
    /\ fpc = "ready" /\ split_in.rule = "selector"
    /\ split_out' = SplitBySelector(split_in.labels, split_in.selector,
                                    split_in.tds)
    /\ fpc' = "done"
    /\ SplitUnchanged

SplitNext == \/ RunSplitByIndicatorsValidated
             \/ RunSplitByIndicators
             \/ RunSplitBySelector

SpecSplit == SplitInit /\ [][SplitNext]_vars

\* The row positions of all sections, one section after the other.
RECURSIVE Flatten(_)
Flatten(secs) == IF secs = <<>> THEN <<>> ELSE Head(secs) \o Flatten(Tail(secs))

\* C2: the sections a splitter returns for a non-empty table partition its
\* rows: put end to end, in order, they are the rows 1..n, each once, the
\* rows before the first marker row included.
C2_SectionsPartitionRows ==
    (fpc = "done" /\ split_out.err = "none") =>
        Flatten(split_out.sections) = RowRange(1, Len(split_in.labels))

\* No row label ends with the indicator suffix.
NoSuffixRow(labels) ==
    \A i \in DOMAIN labels : ~EndsWith(labels[i], IndicatorSuffix)

\* No row label contains the text of a matched marker element.
NoListedRow(labels, tds) ==
    \A i \in DOMAIN labels : \A j \in DOMAIN tds : ~StrContains(labels[i], tds[j])

\* C14: for a table without a marker row, the structural rule returns one
\* section, the whole table; the explicit marker list, configured and
\* matching no row, fails and returns no section.
C14_NoMarkerRow ==
    fpc = "done" =>
        /\ (/\ split_in.rule \in {"indicators_validated", "indicators"}
            /\ NoSuffixRow(split_in.labels))
           => /\ split_out.err = "none"
              /\ split_out.sections = <<RowRange(1, Len(split_in.labels))>>
        /\ (/\ split_in.rule = "selector"
            /\ split_in.selector
            /\ NoListedRow(split_in.labels, split_in.tds))
           => /\ split_out.err # "none"
              /\ split_out.sections = <<>>

\* C14 witness: a marker selector that matches an element whose text is in
\* no row of a two-row table; the splitter has failed.
C14_Witness ==
    /\ fpc = "done"
    /\ split_in.rule = "selector"
    /\ split_in.selector
    /\ split_in.tds = <<<<89>>>>
    /\ Len(split_in.labels) = 2
    /\ split_out.err = "RuntimeError"

\* The rows a configured marker list resolves to.
ListedRows(labels, tds) ==
    {i \in DOMAIN labels : \E j \in DOMAIN tds : StrContains(labels[i], tds[j])}

\* The rows the structural rule takes for marker rows.
SuffixRows(labels) == {i \in DOMAIN labels : EndsWith(labels[i], IndicatorSuffix)}

\* The marker rows of the input under the rule in force; none when the
\* explicit list is not configured.
MarkerRows(in) ==
    IF in.rule = "selector"
    THEN (IF in.selector THEN ListedRows(in.labels, in.tds) ELSE {})
    ELSE SuffixRows(in.labels)

\* C23: a row that several markers resolve to starts exactly one section:
\* the first rows of the sections returned are the marker rows, each once,
\* in strictly increasing order, and every section holds at least one row.
C23_StartsStrictlyIncreasing ==
    (fpc = "done" /\ split_out.err = "none") =>
        LET secs == split_out.sections
            rows == MarkerRows(split_in)
        IN  /\ \A i \in DOMAIN secs : secs[i] # <<>>
            /\ \A i, j \in DOMAIN secs : i < j => Head(secs[i]) < Head(secs[j])
            /\ rows # {} =>
                  /\ Len(secs) = Cardinality(rows)
                  /\ {Head(secs[i]) : i \in DOMAIN secs} = rows

\* C23 witness: the markers "X指标" and "指标" both resolve to the second of
\* three rows, which starts the only section.
C23_Witness ==
    /\ fpc = "done"
    /\ split_in.rule = "selector"
    /\ split_in.selector
    /\ split_in.tds = <<<<88, 25351, 26631>>, <<25351, 26631>>>>
    /\ split_in.labels = <<<<88>>, <<88, 25351, 26631>>, <<88>>>>
    /\ split_out.err = "none"
    /\ split_out.sections = <<<<2, 3>>>>

\* C30: under the explicit marker list a row starts a section only if its
\* label is one of the marker labels; a label that merely contains a marker
\* label, or any label when a marker label is empty, starts none.
C30_ExactLabelStartsSection ==
    (/\ fpc = "done"
     /\ split_in.rule = "selector"
     /\ split_in.selector
     /\ split_out.err = "none") =>
        \A i \in DOMAIN split_out.sections :
            split_in.labels[Head(split_out.sections[i])] \in Elems(split_in.tds)

(***************************************************************************)
(* Tables.  A table is a list of rows, a row a list of cells.              *)
(***************************************************************************)

Null   == [k |-> "null", v |-> <<>>]
Num(n) == [k |-> "num", v |-> <<n>>]
Str(t) == [k |-> "str", v |-> t]

NRows(t) == Len(t)
NCols(t) == IF t = <<>> THEN 0 ELSE Len(t[1])

\* df.empty: no rows or no columns.
IsEmptyFrame(t) == NRows(t) = 0 \/ NCols(t) = 0

\* n cells of NaN.
NullRow(n) == [c \in 1..n |-> Null]

\* df.iloc[:, 1:]
DropFirstColumn(t) == [r \in 1..NRows(t) |-> Tail(t[r])]

Max(S) == CHOOSE x \in S : \A y \in S : y <= x

(***************************************************************************)
(* Assembling the pages of one category: each page's table is extracted    *)
(* (later pages lose their first column), then the pages are put side by   *)
(* side with pd.concat(axis=1).                                            *)
(***************************************************************************)

\* The most pages of one category, and the most rows and columns of a page.
MaxPages == 2
MaxPageRows == 3
MaxPageCols == 2

\* The decoded table of page p (from 0) with nr rows and nc columns: a label
\* column, then cells that tell page, row and column apart.
PageTable(p, nr, nc) ==
    [r \in 1..nr |->
        [c \in 1..nc |-> IF c = 1 THEN Str(<<88, 48 + r>>)
                         ELSE Num(100 * p + 10 * r + c)]]

\* scraper.py: extraction with the validator's checks.
ExtractPageValidated(t, page_index) ==
    IF IsEmptyFrame(t) THEN [err |-> "DataIntegrityError", df |-> <<>>]
    ELSE IF NRows(t) < 2 \/ NCols(t) < 2
    THEN [err |-> "TableStructureError", df |-> <<>>]
    ELSE IF page_index > 0
    THEN [err |-> "none", df |-> DropFirstColumn(t)]
    ELSE [err |-> "none", df |-> t]

\* table.py, processor.py and data_processing.py: extraction unchecked but
\* for an empty table.
ExtractPagePlain(t, page_index, exc) ==
    IF IsEmptyFrame(t) THEN [err |-> exc, df |-> <<>>]
    ELSE IF page_index > 0
    THEN [err |-> "none", df |-> DropFirstColumn(t)]
    ELSE [err |-> "none", df |-> t]

ExtractPage(v, t, page_index) ==
    IF v = "scraper" THEN ExtractPageValidated(t, page_index)
    ELSE IF v = "table" THEN ExtractPagePlain(t, page_index, "RuntimeError")
    ELSE ExtractPagePlain(t, page_index, "DataProcessingException")

\* Row r of a frame in a column-wise concatenation: the frame's own row, or
\* NaN in each of its columns when the frame has no such row.
RowOrNaN(t, r) == IF r <= NRows(t) THEN t[r] ELSE NullRow(NCols(t))

\* Row r of the frames side by side.
RECURSIVE JoinRow(_, _)
JoinRow(frames, r) ==
    IF frames = <<>> THEN <<>>
    ELSE RowOrNaN(Head(frames), r) \o JoinRow(Tail(frames), r)

\* pd.concat(frames, axis=1, ignore_index=True): the frames side by side on
\* the union of their row indices.
ConcatColumns(frames) ==
    LET n == Max({NRows(frames[i]) : i \in DOMAIN frames} \cup {0})
    IN  [r \in 1..n |-> JoinRow(frames, r)]

\* FinancialData.is_empty(): no rows, or no cell in any row.
PageIsEmpty(df) == df = <<>> \/ \A r \in DOMAIN df : df[r] = <<>>

\* The extracted pages side by side, or the first extraction error.  In
\* data_processing.py the pages go through validate_dataset before they are
\* joined, which refuses a page whose rows are all empty.
AssemblePages(v, pages) ==
    LET ex == [i \in DOMAIN pages |-> ExtractPage(v, pages[i], i - 1)]
        bad == {i \in DOMAIN pages : ex[i].err # "none"}
    IN  IF bad # {}
        THEN [err |-> ex[CHOOSE i \in bad : \A j \in bad : i <= j].err,
              table |-> <<>>]
        ELSE IF v = "dataproc" /\ \E i \in DOMAIN pages : PageIsEmpty(ex[i].df)
        THEN [err |-> "DataIntegrityException", table |-> <<>>]
        ELSE [err |-> "none",
              table |-> ConcatColumns([i \in DOMAIN pages |-> ex[i].df])]

AssembleInit ==
    /\ fpc = "ready"
    /\ \E v \in {"scraper", "table", "dataproc"}, n \in 1..MaxPages :
         \E dims \in [1..n -> (1..MaxPageRows) \X (1..MaxPageCols)] :
            pages_in = [variant |-> v,
                        pages |-> [i \in 1..n |->
                                     PageTable(i - 1, dims[i][1], dims[i][2])]]
    /\ assembled = "pending"
    /\ split_in = Idle /\ split_out = Idle
    /\ url_dataframes = Idle /\ result_df = Idle
    /\ CrawlIdle
    /\ RunIdle
    /\ AuxIdle

\* The pages of a category are extracted in order and concatenated.
Assemble ==
    /\ fpc = "ready"
    /\ assembled' = AssemblePages(pages_in.variant, pages_in.pages)
    /\ fpc' = "done"
    /\ UNCHANGED <<split_in, split_out, pages_in, url_dataframes, result_df,
                   crawlVars, runVars, auxVars>>

AssembleNext == Assemble

SpecAssemble == AssembleInit /\ [][AssembleNext]_vars

\* The pages of the input do not all have the same number of rows.
UnequalRowCounts ==
    \E i, j \in DOMAIN pages_in.pages :
        NRows(pages_in.pages[i]) # NRows(pages_in.pages[j])

\* C3: pages of one category with unequal row counts are rejected with a
\* table-structure error and no assembled table is produced.
C3_UnequalRowCountsRejected ==
    (fpc = "done" /\ UnequalRowCounts) =>
        /\ assembled.err = "TableStructureError"
        /\ assembled.table = <<>>

\* Row r of the pages side by side, page 0 whole and every later page
\* without its column 0.
RECURSIVE LaterPagesRow(_, _)
LaterPagesRow(pages, r) ==
    IF pages = <<>> THEN <<>>
    ELSE Tail(Head(pages)[r]) \o LaterPagesRow(Tail(pages), r)

ExpectedRow(pages, r) == pages[1][r] \o LaterPagesRow(Tail(pages), r)

\* A page after the first has one column only.
SomeLaterPageOneColumn ==
    \E k \in 2..Len(pages_in.pages) : NCols(pages_in.pages[k]) = 1

\* C26: pages with equal row counts are assembled with page 0 whole and
\* every later page less its column 0, in page order; a later page that has
\* one column only is rejected.
C26_LaterPagesLoseColumnZero ==
    (fpc = "done" /\ ~UnequalRowCounts) =>
        IF SomeLaterPageOneColumn
        THEN assembled.err # "none"
        ELSE assembled.err = "none" =>
               \A r \in DOMAIN assembled.table :
                   assembled.table[r] = ExpectedRow(pages_in.pages, r)

(***************************************************************************)
(* Aligning the tables of several sources on their period columns          *)
(* (processor.py, _merge_by_date_alignment).  Row 1 of a table is its      *)
(* header; columns 1 and 2 are the fixed label columns and the period      *)
(* columns start at column 3.                                              *)
(***************************************************************************)

\* The most tables handed to the aligner and the most period columns of one.
MaxTables == 2
MaxDateCols == 2

\* NUM_FIXED_COLS: the title and the indicator column.
NUM_FIXED_COLS == 2

\* Period identifiers in a header: "9", "10" and " 9".
PeriodTexts == {<<57>>, <<49, 48>>, <<32, 57>>}

\* The decimal digits of a natural number.
RECURSIVE Digits(_)
Digits(n) == IF n < 10 THEN <<48 + n>> ELSE Digits(n \div 10) \o <<48 + (n % 10)>>

\* str(cell): the text itself, the digits of a number, "nan" for NaN.
CellText(cell) ==
    IF cell.k = "str" THEN cell.v
    ELSE IF cell.k = "num" THEN Digits(cell.v[1])
    ELSE <<110, 97, 110>>

\* str(header cell).strip() of column c.
DateText(df, c) == Strip(CellText(df[1][c]))

\* The period columns of a table that has rows.
DateColumns(df) ==
    IF NCols(df) > NUM_FIXED_COLS /\ NRows(df) > 0
    THEN (NUM_FIXED_COLS + 1)..NCols(df)
    ELSE {}

\* The header texts gathered as they stand, surrounding whitespace kept.
AllDatesUnstripped(dfs) ==
    UNION {{CellText(dfs[i][1][c]) : c \in DateColumns(dfs[i])} : i \in DOMAIN dfs}
        \ {<<>>}

\* The dates gathered from the first table of the list alone.
AllDatesOfFirstTable(dfs) ==
    {DateText(dfs[1], c) : c \in DateColumns(dfs[1])} \ {<<>>}

\* all_dates: the non-empty stripped header texts of all tables.
AllDates(dfs) ==
    UNION {{DateText(dfs[i], c) : c \in DateColumns(dfs[i])} : i \in DOMAIN dfs}
        \ {<<>>}

\* The dates sorted without reverse=True.
SortedDatesOldestFirst(dates) ==
    [i \in 1..Cardinality(dates) |->
        CHOOSE x \in dates : Cardinality({y \in dates : StrLess(y, x)}) = i - 1]

\* sorted(list(all_dates), reverse=True)
SortedDatesNewestFirst(dates) ==
    [i \in 1..Cardinality(dates) |->
        CHOOSE x \in dates : Cardinality({y \in dates : StrLess(x, y)}) = i - 1]

\* sorted_dates_newest_first.index(date_value), from 1.
IndexOf(xs, x) == CHOOSE i \in DOMAIN xs : xs[i] = x

\* original_col_to_date of one table: the columns whose date is in the list.
OriginalColToDate(df, sorted) ==
    {c \in DateColumns(df) : DateText(df, c) # <<>> /\ DateText(df, c) \in Elems(sorted)}

\* The cells left in the columns they had in their own table.
MapDateColumnsInPlace(new_row, df, r, sorted, cols) ==
    [c \in DOMAIN new_row |-> IF c \in cols THEN df[r][c] ELSE new_row[c]]

\* The loop over original_col_to_date.items(), in column order: each cell is
\* written at the position of its date, a later column over an earlier one.
RECURSIVE MapDateColumns(_, _, _, _, _)
MapDateColumns(new_row, df, r, sorted, cols) ==
    IF cols = {} THEN new_row
    ELSE LET c == CHOOSE x \in cols : \A y \in cols : x <= y
             at == NUM_FIXED_COLS + IndexOf(sorted, DateText(df, c))
         IN  MapDateColumns([new_row EXCEPT ![at] = df[r][c]],
                            df, r, sorted, cols \ {c})

\* new_row_data for row r of one table.
AlignedRow(df, r, sorted) ==
    LET total_columns == NUM_FIXED_COLS + Len(sorted)
        fixed == IF NCols(df) < NUM_FIXED_COLS THEN NCols(df) ELSE NUM_FIXED_COLS
        start == [c \in 1..total_columns |-> IF c <= fixed THEN df[r][c] ELSE Null]
    IN  MapDateColumns(start, df, r, sorted, OriginalColToDate(df, sorted))

\* The rows appended when the loop starts after the header row.
AlignedRowsAfterHeader(df, sorted) ==
    [r \in 1..(NRows(df) - 1) |-> AlignedRow(df, r + 1, sorted)]

\* The rows the loop over one table appends: all of them, the header first.
AlignedRows(df, sorted) == [r \in 1..NRows(df) |-> AlignedRow(df, r, sorted)]

RECURSIVE AlignAll(_, _)
AlignAll(dfs, sorted) ==
    IF dfs = <<>> THEN <<>>
    ELSE AlignedRows(Head(dfs), sorted) \o AlignAll(Tail(dfs), sorted)

\* _merge_by_date_alignment: one table is returned as it is.
MergeByDateAlignment(dfs) ==
    IF Len(dfs) = 1 THEN dfs[1]
    ELSE AlignAll(dfs, SortedDatesNewestFirst(AllDates(dfs)))

\* The table of source i (from 1) with the given header periods and nd data
\* rows: the title cell names the source, the label cell the row, and each
\* value tells source, row and column apart.
SourceTable(i, periods, nd) ==
    [r \in 1..(nd + 1) |->
        [c \in 1..(NUM_FIXED_COLS + Len(periods)) |->
            IF c = 1 THEN Str(<<64 + i>>)
            ELSE IF c = 2 THEN Str(<<76, 47 + r>>)
            ELSE IF r = 1 THEN Str(periods[c - NUM_FIXED_COLS])
            ELSE Num(100 * i + 10 * r + c)]]

\* The two sources of the end-to-end example: header [Title, Label, period]
\* and one data row each.
ExampleA ==
    << <<Str(<<84, 105, 116, 108, 101>>), Str(<<76, 97, 98, 101, 108>>),
         Str(<<50, 48, 50, 51, 45, 49, 50, 45, 51, 49>>)>>,
       <<Str(<<65>>), Str(<<120>>), Num(15000)>> >>
ExampleB ==
    << <<Str(<<84, 105, 116, 108, 101>>), Str(<<76, 97, 98, 101, 108>>),
         Str(<<50, 48, 50, 52, 45, 48, 54, 45, 51, 48>>)>>,
       <<Str(<<66>>), Str(<<121>>), Num(200000000)>> >>

AlignInit ==
    /\ fpc = "ready"
    /\ \/ \E n \in 1..MaxTables :
            \E hs \in [1..n -> ListsOf(PeriodTexts, 0, MaxDateCols)] :
               url_dataframes = [i \in 1..n |-> SourceTable(i, hs[i], i)]
       \/ url_dataframes = <<ExampleA, ExampleB>>
    /\ result_df = "pending"
    /\ split_in = Idle /\ split_out = Idle
    /\ pages_in = Idle /\ assembled = Idle
    /\ CrawlIdle
    /\ RunIdle
    /\ AuxIdle

AlignTables ==
    /\ fpc = "ready"
    /\ result_df' = MergeByDateAlignment(url_dataframes)
    /\ fpc' = "done"
    /\ UNCHANGED <<split_in, split_out, pages_in, assembled, url_dataframes,
                   crawlVars, runVars, auxVars>>

AlignNext == AlignTables

SpecAlign == AlignInit /\ [][AlignNext]_vars

\* ---- what the claims about the aligner speak of

RECURSIVE TotalRows(_)
TotalRows(dfs) == IF dfs = <<>> THEN 0 ELSE NRows(Head(dfs)) + TotalRows(Tail(dfs))

\* The rows of the output ahead of those of source i.
RowOffset(dfs, i) == TotalRows(SubSeq(dfs, 1, i - 1))

\* U: the distinct period identifiers heading a column of some input,
\* surrounding whitespace apart.
PeriodsOf(df) == {DateText(df, c) : c \in (NUM_FIXED_COLS + 1)..NCols(df)}
InputPeriods(dfs) == UNION {PeriodsOf(dfs[i]) : i \in DOMAIN dfs}

\* The output has no header of its own: each source's header row is one of
\* its rows.  The period of output column c is what those rows hold in it.
OutHeaderRows(dfs) == {RowOffset(dfs, i) + 1 : i \in DOMAIN dfs}
OutColumnPeriods(out, dfs, c) ==
    {Strip(CellText(out[h][c])) : h \in {x \in OutHeaderRows(dfs) : out[x][c] # Null}}
OutPeriodColumns(out) == (NUM_FIXED_COLS + 1)..NCols(out)

AllRowsHaveWidth(out, w) == \A r \in DOMAIN out : Len(out[r]) = w

\* C4 as claimed: for every list of inputs the output has 2 + |U| columns.
C4_ColumnCountAnyList ==
    fpc = "done" =>
        AllRowsHaveWidth(result_df,
                         NUM_FIXED_COLS + Cardinality(InputPeriods(url_dataframes)))

\* C4: for two or more inputs the output has exactly 2 + |U| columns, U the
\* distinct period identifiers of all headers with surrounding whitespace
\* removed; a single input is returned as it is, with its own columns.
C4_ColumnCount ==
    fpc = "done" =>
        IF Len(url_dataframes) >= 2
        THEN AllRowsHaveWidth(result_df,
                 NUM_FIXED_COLS + Cardinality(InputPeriods(url_dataframes)))
        ELSE result_df = url_dataframes[1]

\* C4 witness: two inputs, one with a period twice in its header, and two
\* distinct periods in all: four columns.
C4_Witness ==
    /\ fpc = "done"
    /\ Len(url_dataframes) = 2
    /\ NCols(url_dataframes[1]) = 4
    /\ Cardinality(PeriodsOf(url_dataframes[1])) = 1
    /\ Cardinality(InputPeriods(url_dataframes)) = 2
    /\ NCols(result_df) = 4

\* The output's own rows of source i, row r.
OutRow(out, dfs, i, r) == out[RowOffset(dfs, i) + r]

\* C5 as claimed: every cell of a source row stands in the output row under
\* its own period, the other period columns of that row are null, and
\* nothing stands under a period other than its own: no value is lost.
C5_ValuesUnderOwnPeriod ==
    fpc = "done" =>
        \A i \in DOMAIN url_dataframes :
          \A r \in 1..NRows(url_dataframes[i]) :
            LET df == url_dataframes[i]
                orow == OutRow(result_df, url_dataframes, i, r)
                Own(c) == {c0 \in (NUM_FIXED_COLS + 1)..NCols(df) :
                              DateText(df, c0) \in
                                 OutColumnPeriods(result_df, url_dataframes, c)}
            IN  /\ \A c0 \in (NUM_FIXED_COLS + 1)..NCols(df) :
                     \E c \in OutPeriodColumns(result_df) :
                        c0 \in Own(c) /\ orow[c] = df[r][c0]
                /\ \A c \in OutPeriodColumns(result_df) :
                     IF Own(c) = {} THEN orow[c] = Null
                     ELSE \E c0 \in Own(c) : orow[c] = df[r][c0]

\* Each period column of the output has one period, and the periods fall
\* strictly from left to right in Python's string order.
ColumnsDescending(out, dfs) ==
    /\ \A c \in OutPeriodColumns(out) :
          Cardinality(OutColumnPeriods(out, dfs, c)) = 1
    /\ \A c1, c2 \in OutPeriodColumns(out) :
          c1 < c2 =>
             \A p1 \in OutColumnPeriods(out, dfs, c1),
                p2 \in OutColumnPeriods(out, dfs, c2) : StrLess(p2, p1)

\* C6 as claimed: descending for every non-empty list, one table included.
C6_DescendingAnyList ==
    fpc = "done" => ColumnsDescending(result_df, url_dataframes)

\* C6: for two or more inputs the period columns of the output are in
\* strictly descending string order; a single input keeps its column order.
C6_Descending ==
    fpc = "done" =>
        /\ Len(url_dataframes) >= 2 =>
              ColumnsDescending(result_df, url_dataframes)
        /\ Len(url_dataframes) = 1 => result_df[1] = url_dataframes[1][1]

\* C6 witness: the first input lists "10" before "9"; the output has "9"
\* first, as "9" is the greater string.
C6_Witness ==
    /\ fpc = "done"
    /\ Len(url_dataframes) = 2
    /\ NCols(url_dataframes[1]) = 4
    /\ url_dataframes[1][1][3] = Str(<<49, 48>>)
    /\ url_dataframes[1][1][4] = Str(<<57>>)
    /\ result_df[1][3] = Str(<<57>>)
    /\ result_df[1][4] = Str(<<49, 48>>)

\* C7: the output has one row per input row, sources in input order and
\* rows in source order (each output row carries the label cells of its
\* input row), and every period heading an input column heads an output
\* column.
C7_RowsAndPeriodsKept ==
    fpc = "done" =>
        /\ NRows(result_df) = TotalRows(url_dataframes)
        /\ \A i \in DOMAIN url_dataframes :
             \A r \in 1..NRows(url_dataframes[i]) :
                SubSeq(OutRow(result_df, url_dataframes, i, r), 1, NUM_FIXED_COLS)
                   = SubSeq(url_dataframes[i][r], 1, NUM_FIXED_COLS)
        /\ \A p \in InputPeriods(url_dataframes) :
             \E c \in OutPeriodColumns(result_df) :
                p \in OutColumnPeriods(result_df, url_dataframes, c)

\* C7 witness: two sources with different periods, five rows in all.
C7_Witness ==
    /\ fpc = "done"
    /\ Len(url_dataframes) = 2
    /\ PeriodsOf(url_dataframes[1]) = {<<57>>}
    /\ PeriodsOf(url_dataframes[2]) = {<<49, 48>>}
    /\ NRows(result_df) = 5

ExampleHeader(p1, p2) ==
    <<Str(<<84, 105, 116, 108, 101>>), Str(<<76, 97, 98, 101, 108>>), p1, p2>>
Example2023 == Str(<<50, 48, 50, 51, 45, 49, 50, 45, 51, 49>>)
Example2024 == Str(<<50, 48, 50, 52, 45, 48, 54, 45, 51, 48>>)

\* C8 as claimed: the example yields one header and two data rows.
C8_ExampleOneHeader ==
    (fpc = "done" /\ url_dataframes = <<ExampleA, ExampleB>>) =>
        result_df = << ExampleHeader(Example2024, Example2023),
                       <<Str(<<65>>), Str(<<120>>), Null, Num(15000)>>,
                       <<Str(<<66>>), Str(<<121>>), Num(200000000), Null>> >>

\* C8: the example yields four rows: each source's header row, holding its
\* own period in the aligned column and null in the other, followed by its
\* data row: [A, x, null, 15000] and [B, y, 200000000, null].
C8_Example ==
    (fpc = "done" /\ url_dataframes = <<ExampleA, ExampleB>>) =>
        result_df = << ExampleHeader(Null, Example2023),
                       <<Str(<<65>>), Str(<<120>>), Null, Num(15000)>>,
                       ExampleHeader(Example2024, Null),
                       <<Str(<<66>>), Str(<<121>>), Num(200000000), Null>> >>

\* C8 witness: the example's two sources have been aligned.
C8_Witness ==
    /\ fpc = "done"
    /\ url_dataframes = <<ExampleA, ExampleB>>
    /\ NRows(result_df) = 4

(***************************************************************************)
(* The aligner applied to a list of tables and to the same list reversed;  *)
(* the lists include a table paired with itself.                           *)
(***************************************************************************)

\* The most tables of such a list, and the most period columns of a table.
MaxListLen == 2
MaxListDateCols == 2

Reverse(xs) == [i \in 1..Len(xs) |-> xs[Len(xs) + 1 - i]]

PairInit ==
    /\ fpc = "ready"
    /\ \/ \E h \in ListsOf(PeriodTexts, 0, MaxListDateCols) :
            url_dataframes = <<SourceTable(1, h, 1), SourceTable(1, h, 1)>>
       \/ \E n \in 2..MaxListLen :
            \E hs \in [1..n -> ListsOf(PeriodTexts, 0, MaxListDateCols)] :
               url_dataframes = [i \in 1..n |-> SourceTable(i, hs[i], 1)]
    /\ result_df = "pending"
    /\ reversed_df = "pending"
    /\ split_in = Idle /\ split_out = Idle
    /\ pages_in = Idle /\ assembled = Idle
    /\ CrawlIdle
    /\ RunIdle
    /\ NormIdle
    /\ WebIdle
    /\ SrcIdle

AlignList ==
    /\ fpc = "ready"
    /\ result_df' = MergeByDateAlignment(url_dataframes)
    /\ fpc' = "aligned"
    /\ UNCHANGED <<split_in, split_out, pages_in, assembled, url_dataframes,
                   crawlVars, runVars, normVars, webVars, srcVars,
                   reversed_df>>

AlignReversedList ==
    /\ fpc = "aligned"
    /\ reversed_df' = MergeByDateAlignment(Reverse(url_dataframes))
    /\ fpc' = "done"
    /\ UNCHANGED <<split_in, split_out, pages_in, assembled, url_dataframes,
                   result_df, crawlVars, runVars, normVars, webVars,
                   srcVars>>

PairNext == \/ AlignList
            \/ AlignReversedList

SpecAlignLists == PairInit /\ [][PairNext]_vars

\* The list is a table paired with itself.
IsSelfPair(dfs) == Len(dfs) = 2 /\ dfs[1] = dfs[2]

\* C18 as claimed: aligning [T, T] gives the rows of T, no other row, under
\* the period columns of T.
C18_SelfPairSameRows ==
    (fpc \in {"aligned", "done"} /\ IsSelfPair(url_dataframes)) =>
        Elems(result_df) = Elems(url_dataframes[1])

\* The header periods of T are, with surrounding whitespace removed,
\* distinct and in strictly descending order from left to right.
HeaderDescending(df) ==
    \A c1, c2 \in (NUM_FIXED_COLS + 1)..NCols(df) :
        c1 < c2 => StrLess(DateText(df, c2), DateText(df, c1))

\* C18, amended: aligning [T, T] gives twice as many rows as T has, the
\* second half equal to the first; when the header periods of T are
\* distinct and descending, the rows are those of T followed by those of T
\* again, under the period columns of T.
C18_SelfPairTwice ==
    (fpc \in {"aligned", "done"} /\ IsSelfPair(url_dataframes)) =>
        LET t == url_dataframes[1]
            n == NRows(t)
        IN  /\ NRows(result_df) = 2 * n
            /\ \A r \in 1..n : result_df[n + r] = result_df[r]
            /\ HeaderDescending(t) => result_df = t \o t

\* C18 witness: T with the periods "9", "10" (descending as strings) paired
\* with itself: four rows, T twice.
C18_Witness ==
    /\ fpc = "aligned"
    /\ IsSelfPair(url_dataframes)
    /\ NCols(url_dataframes[1]) = 4
    /\ url_dataframes[1][1][3] = Str(<<57>>)
    /\ url_dataframes[1][1][4] = Str(<<49, 48>>)
    /\ result_df = url_dataframes[1] \o url_dataframes[2]

\* The rows source i contributes to the output of the aligner for dfs.
OutRowsOf(out, dfs, i) ==
    SubSeq(out, RowOffset(dfs, i) + 1, RowOffset(dfs, i) + NRows(dfs[i]))

\* Row r of the output for source i carries the two label cells of row r of
\* that source, for every r: the source's rows are in the source's order.
KeepsSourceOrder(out, dfs) ==
    \A i \in DOMAIN dfs :
        /\ Len(OutRowsOf(out, dfs, i)) = NRows(dfs[i])
        /\ \A r \in 1..NRows(dfs[i]) :
              \A c \in 1..NUM_FIXED_COLS :
                 OutRowsOf(out, dfs, i)[r][c] = dfs[i][r][c]

\* C19: for every list of two or more tables, the output for the list and
\* the output for the reversed list have the same period columns in the same
\* order, and in both the rows of each source keep the order they had in
\* that source (each source contributes the same rows to both outputs).
C19_ReversalKeepsColumnsAndRowOrder ==
    (fpc = "done" /\ Len(url_dataframes) >= 2) =>
        LET dfs == url_dataframes
            rev == Reverse(dfs)
            n   == Len(dfs)
        IN  /\ \A r \in DOMAIN result_df : Len(result_df[r]) = NCols(reversed_df)
            /\ \A r \in DOMAIN reversed_df : Len(reversed_df[r]) = NCols(result_df)
            /\ \A c \in OutPeriodColumns(result_df) :
                  OutColumnPeriods(result_df, dfs, c)
                      = OutColumnPeriods(reversed_df, rev, c)
            /\ KeepsSourceOrder(result_df, dfs)
            /\ KeepsSourceOrder(reversed_df, rev)
            /\ \A i \in 1..n :
                  OutRowsOf(result_df, dfs, i) = OutRowsOf(reversed_df, rev, n + 1 - i)

\* C19 witness: two sources headed "9" and "10"; both outputs have the
\* columns "9", "10" in that order, and the outputs differ in the order of
\* the sources only.
C19_Witness ==
    /\ fpc = "done"
    /\ Len(url_dataframes) = 2
    /\ NCols(url_dataframes[1]) = 3
    /\ NCols(url_dataframes[2]) = 3
    /\ DateText(url_dataframes[1], 3) = <<49, 48>>
    /\ DateText(url_dataframes[2], 3) = <<57>>
    /\ NCols(result_df) = 4
    /\ result_df # reversed_df
    /\ OutColumnPeriods(result_df, url_dataframes, 3) = {<<57>>}
    /\ OutColumnPeriods(reversed_df, Reverse(url_dataframes), 3) = {<<57>>}
    /\ OutColumnPeriods(reversed_df, Reverse(url_dataframes), 4) = {<<49, 48>>}

(***************************************************************************)
(* One run, from main() (main.py) or from process_urls (web_app.py): the   *)
(* entry point calls scraper.run(urls), then                               *)
(* processor.process_and_save_data(scraped_data).                          *)
(***************************************************************************)

\* The most URLs of one run.
MaxUrls == 2

\* pd.concat(frames, axis=0, ignore_index=True): the rows of all frames, one
\* frame after the other, on the union of their columns.
ConcatRows(dfs) ==
    LET w == Max({NCols(dfs[i]) : i \in DOMAIN dfs} \cup {0})
        Pad(row) == row \o NullRow(w - Len(row))
        RECURSIVE Rows(_)
        Rows(fs) == IF fs = <<>> THEN <<>>
                    ELSE [r \in 1..NRows(Head(fs)) |-> Pad(Head(fs)[r])]
                         \o Rows(Tail(fs))
    IN  Rows(dfs)

\* Python's None.
None == "None"

\* The expected_features dict process_and_save_data passes to the final
\* validation: both keys are present, 'expected_columns' with the value None.
\* An optional integer is a tuple of at most one number.
ExpectedFeatures(n_urls) ==
    [min_rows |-> <<n_urls>>, expected_columns |-> <<>>]

\* The final validation with a None expectation taken as 'no check'.
ValidateFinalOutputNoneSkipped(df, expected_features) ==
    IF IsEmptyFrame(df) THEN "DataIntegrityError"
    ELSE IF NCols(df) < 2 THEN "DataIntegrityError"
    ELSE IF \E r \in DOMAIN df : \A c \in DOMAIN df[r] : df[r][c] = Null
         THEN "DataContentError"
    ELSE IF NRows(df) < expected_features.min_rows[1] \/ NCols(df) < 1
         THEN "TableStructureError"
    ELSE IF /\ expected_features.expected_columns # <<>>
            /\ <<NCols(df)>> # expected_features.expected_columns
         THEN "TableStructureError"
    ELSE "ok"

\* validate_final_output: the exception it raises, or "ok".  The test
\* 'expected_columns' in expected_features asks for the key, which is there,
\* and df.shape[1] != None is true of every table.
ValidateFinalOutput(df, expected_features) ==
    IF IsEmptyFrame(df) THEN "DataIntegrityError"
    ELSE IF NCols(df) < 2 THEN "DataIntegrityError"
    ELSE IF \E r \in DOMAIN df : \A c \in DOMAIN df[r] : df[r][c] = Null
         THEN "DataContentError"
    ELSE IF NRows(df) < expected_features.min_rows[1] \/ NCols(df) < 1
         THEN "TableStructureError"
    ELSE IF <<NCols(df)>> # expected_features.expected_columns
         THEN "TableStructureError"
    ELSE "ok"

\* What the entry point reports: main()'s exit code, or the task's status.
Reported(e, err) ==
    IF e = "cli" THEN (IF err = "none" THEN "exit 0" ELSE "exit 1")
    ELSE (IF err = "none" THEN "completed" ELSE "error")

RunInit ==
    /\ entry \in {"cli", "web"}
    /\ rpc = "scrape"
    /\ \E n \in 1..MaxUrls :
         \E hs \in [1..n -> ListsOf(PeriodTexts, 1, 1)] :
            url_tables = [i \in 1..n |-> SourceTable(i, hs[i], 1)]
    /\ scraped_data = "unset"
    /\ final_df = <<>>
    /\ written = <<>>
    /\ run_err = "none"
    /\ outcome = "running"
    /\ CrawlIdle
    /\ StageIdle
    /\ AuxIdle

\* scraper.run, phase 1: scrape_data(urls) returns the pages of every URL,
\* or a failure leaves run() as a DataIntegrityError.
ScrapeData ==
    /\ rpc = "scrape"
    /\ \E ok \in BOOLEAN :
         IF ok
         THEN /\ rpc' = "scraper_process"
              /\ UNCHANGED run_err
         ELSE /\ rpc' = "except"
              /\ run_err' = "DataIntegrityError"
    /\ UNCHANGED <<entry, scraped_data, url_tables, final_df, written, outcome,
                   crawlVars, stageVars, auxVars>>

\* scraper.run, phase 2: process_and_save_data builds the table of every
\* URL, which may fail; it stacks them with pd.concat(axis=0), validates the
\* result and, if that passes, calls final_df.to_excel, which raises or
\* writes the file; run() then ends without a return statement, so its
\* caller receives None.
ScraperProcessAndSave ==
    /\ rpc = "scraper_process"
    /\ \E processed \in BOOLEAN :
         IF ~processed
         THEN /\ rpc' = "except"
              /\ run_err' = "DataIntegrityError"
              /\ UNCHANGED <<final_df, written, scraped_data>>
         ELSE
           /\ final_df' = ConcatRows(url_tables)
           /\ LET v == ValidateFinalOutput(final_df',
                                           ExpectedFeatures(Len(url_tables)))
              IN  IF v = "ok"
                  THEN \E saved \in BOOLEAN :
                         IF saved
                         THEN /\ written' = Append(written, final_df')
                              /\ scraped_data' = None
                              /\ rpc' = "returned"
                              /\ UNCHANGED run_err
                         ELSE /\ rpc' = "except"
                              /\ run_err' = "DataIntegrityError"
                              /\ UNCHANGED <<written, scraped_data>>
                  ELSE /\ rpc' = "except"
                       /\ run_err' = v
                       /\ UNCHANGED <<written, scraped_data>>
    /\ UNCHANGED <<entry, url_tables, outcome,
                   crawlVars, stageVars, auxVars>>

\* processor.process_and_save_data(scraped_data): the exception it raises
\* and the tables it writes.  scraped_data.items() on None raises
\* AttributeError; on a dict the tables are aligned and saved.
ProcessorProcessAndSave(data, tables) ==
    IF data = None
    THEN [err |-> "AttributeError", writes |-> <<>>]
    ELSE [err |-> "none", writes |-> <<MergeByDateAlignment(tables)>>]

\* The rest of the entry point: after scraper.run has returned, the call of
\* the processor and return 0 / 'completed'; after an exception, the except
\* clause with return 1 / 'error'.
EntryFinish ==
    /\ rpc \in {"returned", "except"}
    /\ IF rpc = "returned"
       THEN LET p == ProcessorProcessAndSave(scraped_data, url_tables)
            IN  /\ written' = written \o p.writes
                /\ run_err' = p.err
       ELSE UNCHANGED <<written, run_err>>
    /\ outcome' = Reported(entry, run_err')
    /\ rpc' = "done"
    /\ UNCHANGED <<entry, scraped_data, url_tables, final_df,
                   crawlVars, stageVars, auxVars>>

RunNext == \/ ScrapeData
           \/ ScraperProcessAndSave
           \/ EntryFinish

SpecRun == RunInit /\ [][RunNext]_vars

DOT    == 46
MINUS  == 45
ZERO   == 48
WAN    == 19975       \* the unit 10^4
YI     == 20159       \* the unit 10^8
CN_ONE == 19968       \* the numeral one
CN_FIVE == 20116      \* the numeral five

\* The compound token for 10^12.
WanYi == <<WAN, YI>>

Front(t) == SubSeq(t, 1, Len(t) - 1)
Last(t)  == t[Len(t)]

RECURSIVE Pow10(_)
Pow10(k) == IF k = 0 THEN 1 ELSE 10 * Pow10(k - 1)

RECURSIVE Zeros(_)
Zeros(k) == IF k <= 0 THEN <<>> ELSE <<ZERO>> \o Zeros(k - 1)

\* m * 10^e in its one representation.
RECURSIVE Canon(_, _)
Canon(m, e) ==
    IF m = 0 THEN [m |-> 0, e |-> 0]
    ELSE IF m % 10 = 0 THEN Canon(m \div 10, e + 1)
    ELSE [m |-> m, e |-> e]

Failed == [ok |-> FALSE, m |-> 0, e |-> 0, f |-> 0]
Value(n, f) == [ok |-> TRUE, m |-> n.m, e |-> n.e, f |-> f]

IsDigit(c) == c \in 48..57
AllDigits(t) == \A i \in DOMAIN t : IsDigit(t[i])

\* The value of a short run of digits.
RECURSIVE DigitsValue(_)
DigitsValue(t) ==
    IF t = <<>> THEN 0 ELSE 10 * DigitsValue(Front(t)) + (Last(t) - ZERO)

\* The value of the digits ds times 10^e, whatever the length of a run of
\* zeros at either end.
RECURSIVE Scaled(_, _)
Scaled(ds, e) ==
    IF ds = <<>> THEN Canon(0, 0)
    ELSE IF Last(ds) = ZERO THEN Scaled(Front(ds), e + 1)
    ELSE IF Head(ds) = ZERO THEN Scaled(Tail(ds), e)
    ELSE Canon(DigitsValue(ds), e)

Negated(n) == [m |-> 0 - n.m, e |-> n.e]

\* An unsigned decimal with digits on both sides of a point, or none.
IsPlainDecimal(t) ==
    \/ t # <<>> /\ AllDigits(t)
    \/ \E i \in 2..(Len(t) - 1) :
          /\ t[i] = DOT
          /\ AllDigits(SubSeq(t, 1, i - 1))
          /\ AllDigits(SubSeq(t, i + 1, Len(t)))

PlainDecimalValue(t) ==
    IF AllDigits(t) THEN Scaled(t, 0)
    ELSE LET i == CHOOSE i \in 2..(Len(t) - 1) : t[i] = DOT
             frac == SubSeq(t, i + 1, Len(t))
         IN  Scaled(SubSeq(t, 1, i - 1) \o frac, 0 - Len(frac))

\* The texts the pattern -?\d+(\.\d+)? matches in full.
IsSignedDecimal(t) ==
    \/ IsPlainDecimal(t)
    \/ t # <<>> /\ Head(t) = MINUS /\ IsPlainDecimal(Tail(t))

SignedDecimalValue(t) ==
    IF Head(t) = MINUS THEN Negated(PlainDecimalValue(Tail(t)))
    ELSE PlainDecimalValue(t)

\* float(text): surrounding whitespace is ignored and a digit-less side of
\* the point is allowed; on the texts of this model it accepts nothing else.
PyFloat(text) ==
    LET t == Strip(text)
        u == IF t # <<>> /\ Head(t) = MINUS THEN Tail(t) ELSE t
        padded == (IF u # <<>> /\ Head(u) = DOT THEN <<ZERO>> ELSE <<>>)
                  \o u
                  \o (IF u # <<>> /\ Last(u) = DOT THEN <<ZERO>> ELSE <<>>)
    IN  IF u # <<DOT>> /\ IsPlainDecimal(padded)
        THEN Value(IF t # u THEN Negated(PlainDecimalValue(padded))
                   ELSE PlainDecimalValue(padded), 1)
        ELSE Failed

\* int(x): the fraction is dropped, toward zero.
Truncated(n) ==
    IF n.e >= 0 THEN n
    ELSE LET a == IF n.m < 0 THEN 0 - n.m ELSE n.m
             q == a \div Pow10(0 - n.e)
         IN  Canon(IF n.m < 0 THEN 0 - q ELSE q, 0)

\* x * 10^k.
TimesPow10(n, k) == Canon(n.m, n.e + k)

\* The units the general parser knows after a decimal: 10^4 and 10^8.
UnitExp(c) == IF c = WAN THEN 4 ELSE 8

\* cn2an.cn2an(text, "smart").  A decimal is read with float(); a decimal
\* followed by one unit gives int(float(decimal) * unit); a numeral with at
\* most one unit is read as an integer; anything else is a ValueError.  What
\* the library does with a text holding the compound token is not fixed by
\* this repository: there the result is the given one.
Cn2anSmart(t, on_compound) ==
    IF StrContains(t, WanYi) THEN on_compound
    ELSE IF IsSignedDecimal(t) THEN Value(SignedDecimalValue(t), 1)
    ELSE IF Len(t) >= 2 /\ Last(t) \in {WAN, YI} /\ IsSignedDecimal(Front(t))
         THEN Value(Truncated(TimesPow10(SignedDecimalValue(Front(t)),
                                         UnitExp(Last(t)))), 0)
    ELSE IF /\ t # <<>>
            /\ Head(t) \in {CN_ONE, CN_FIVE}
            /\ \/ Len(t) = 1
               \/ Len(t) = 2 /\ t[2] \in {WAN, YI}
         THEN Value(Canon(IF Head(t) = CN_ONE THEN 1 ELSE 5,
                          IF Len(t) = 1 THEN 0 ELSE UnitExp(t[2])), 0)
    ELSE Failed

\* text.replace(token, ''): every occurrence removed, left to right.
RECURSIVE Removed(_, _)
Removed(t, token) ==
    IF Len(t) < Len(token) THEN t
    ELSE IF SubSeq(t, 1, Len(token)) = token
         THEN Removed(SubSeq(t, Len(token) + 1, Len(t)), token)
    ELSE <<Head(t)>> \o Removed(Tail(t), token)

\* A special case that multiplies by 10^8, the unit of the token's second
\* character alone.
CompoundValueAsYi(t) ==
    LET b == PyFloat(Removed(t, WanYi))
    IN  IF b.ok THEN Value(TimesPow10(b, 8), 1) ELSE Failed

\* The special case: float(text without the token) * 10^12.
CompoundValue(t) ==
    LET b == PyFloat(Removed(t, WanYi))
    IN  IF b.ok THEN Value(TimesPow10(b, 12), 1) ELSE Failed

\* str(number): an int as its digits; a float with a point, and in
\* exponent form from 10^16 up and below 10^-4.
NumberText(m, e, f) ==
    LET a == IF m < 0 THEN 0 - m ELSE m
        d == Digits(a)
        n == Len(d)
        sign == IF m < 0 THEN <<MINUS>> ELSE <<>>
        x == n + e - 1        \* the decimal exponent of the first digit
        mant == <<d[1]>> \o (IF n > 1 THEN <<DOT>> \o Tail(d) ELSE <<>>)
        ax == IF x < 0 THEN 0 - x ELSE x
        expo == <<101, IF x < 0 THEN MINUS ELSE 43>>
                \o (IF ax < 10 THEN <<ZERO>> ELSE <<>>) \o Digits(ax)
    IN  sign \o
        (IF f = 0 THEN d \o Zeros(e)
         ELSE IF m = 0 THEN <<ZERO, DOT, ZERO>>
         ELSE IF x >= 16 \/ x < -4 THEN mant \o expo
         ELSE IF e >= 0 THEN d \o Zeros(e) \o <<DOT, ZERO>>
         ELSE IF n + e > 0
              THEN SubSeq(d, 1, n + e) \o <<DOT>> \o SubSeq(d, n + e + 1, n)
         ELSE <<ZERO, DOT>> \o Zeros(0 - (n + e)) \o d)

NumCell(r) == [k |-> "num", v |-> <<r.m, r.e, r.f>>]

\* str(cell_value) of a cell that is not NaN.
CellStr(cell) ==
    IF cell.k = "str" THEN cell.v
    ELSE NumberText(cell.v[1], cell.v[2], cell.v[3])

\* The placeholder the table and processor variants skip.
Placeholder == <<MINUS, MINUS>>

\* scraper.py, and convert_value in chinese_converter.py: the special case
\* is tried first, the general parser on the other texts.
SpecialFirst(t, on_compound) ==
    IF StrContains(t, WanYi) THEN CompoundValue(t)
    ELSE Cn2anSmart(t, on_compound)

\* table.py and processor.py: the general parser is tried first, the
\* special case when it raises and the text holds the token.
GeneralFirst(t, on_compound) ==
    LET g == Cn2anSmart(t, on_compound)
    IN  IF g.ok THEN g
        ELSE IF StrContains(t, WanYi) THEN CompoundValue(t)
        ELSE Failed

\* One cell of the processed region under each variant.
ConvertCell(v, cell, on_compound) ==
    IF cell.k = "null" THEN cell
    ELSE LET cell_str == Strip(CellStr(cell))
         IN  IF cell_str = <<>> THEN cell
             ELSE IF v \in {"table", "processor"} /\ cell_str = Placeholder
                  THEN cell
             ELSE LET r == IF v \in {"scraper", "converter"}
                           THEN SpecialFirst(cell_str, on_compound)
                           ELSE GeneralFirst(cell_str, on_compound)
                  IN  IF r.ok THEN NumCell(r)
                      ELSE IF v = "converter" THEN Str(cell_str)
                      ELSE cell

\* The first row (1-based) of the region a variant processes; the region
\* starts at the second column in all of them.
FirstRow(v) == IF v = "table" THEN 1 ELSE 2

ConvertRegion(v, df, on_compound) ==
    [r \in DOMAIN df |->
        [c \in DOMAIN df[r] |->
            IF r >= FirstRow(v) /\ c >= 2
            THEN ConvertCell(v, df[r][c], on_compound)
            ELSE df[r][c]]]

\* validate_dataframe_not_empty and validate_numeric_data_region(1, 1),
\* which only the scraper variant runs: the exception raised, or "ok".
ValidateForConversion(df) ==
    IF IsEmptyFrame(df) THEN "DataIntegrityError"
    ELSE IF NRows(df) <= 1 \/ NCols(df) <= 1 THEN "TableStructureError"
    ELSE IF \A r \in 2..NRows(df) : \A c \in 2..NCols(df) : df[r][c] = Null
         THEN "DataContentError"
    ELSE "ok"

\* One application of a normalizer to a table.  strict_mode is the flag the
\* scraper gives its DataValidator; no normalizer reads it.
ConvertChineseNumbers(v, df, on_compound, strict_mode) ==
    LET check == IF v = "scraper" THEN ValidateForConversion(df) ELSE "ok"
    IN  IF check # "ok" THEN [err |-> check, table |-> <<>>]
        ELSE [err |-> "none", table |-> ConvertRegion(v, df, on_compound)]

\* The most rows of a table handed to a normalizer.
MaxNormRows == 2

\* Cell texts: "--", "x", a numeral, "1.5", "0.00001", "1.5" with the unit
\* 10^8, "1.5" and "10000" with the compound token, the token alone.
NormTexts ==
    { Placeholder, <<120>>, <<CN_FIVE>>, <<49, DOT, 53>>,
      <<ZERO, DOT, ZERO, ZERO, ZERO, ZERO, 49>>,
      <<49, DOT, 53, YI>>,
      <<49, DOT, 53>> \o WanYi,
      <<49, ZERO, ZERO, ZERO, ZERO>> \o WanYi,
      WanYi }

\* The cells read_html yields: NaN, text, or a float.
NormCells ==
    {Str(t) : t \in NormTexts}
        \cup {Null, NumCell(Value(Canon(15, -1), 1))}

\* What the general parser may do with a text holding the compound token:
\* raise, or return a number of its own.
CompoundOutcomes == {Failed, Value(Canon(7, 0), 0)}

Pending == [err |-> "pending", table |-> <<>>]

NormInit ==
    /\ npc = "ready"
    /\ \E v \in {"scraper", "converter", "table", "processor"},
          o \in CompoundOutcomes, n \in 1..MaxNormRows :
       \E strict \in (IF v = "scraper" THEN BOOLEAN ELSE {FALSE}) :
         \E cells \in [1..n -> NormCells] :
            norm_in = [variant |-> v, on_compound |-> o,
                       strict_mode |-> strict,
                       table |-> [r \in 1..n |-> <<Str(<<88>>), cells[r]>>]]
    /\ norm_out = Pending
    /\ norm_again = Pending
    /\ CrawlIdle
    /\ StageIdle
    /\ RunIdle
    /\ PairIdle
    /\ WebIdle
    /\ SrcIdle

\* The normalizer is applied to the table.
NormalizeOnce ==
    /\ npc = "ready"
    /\ norm_out' = ConvertChineseNumbers(norm_in.variant, norm_in.table,
                                         norm_in.on_compound,
                                         norm_in.strict_mode)
    /\ npc' = "once"
    /\ UNCHANGED <<norm_in, norm_again, crawlVars, stageVars, runVars,
                   pairVars, webVars, srcVars>>

\* The normalizer is applied to its own result.
NormalizeAgain ==
    /\ npc = "once"
    /\ norm_out.err = "none"
    /\ norm_again' = ConvertChineseNumbers(norm_in.variant, norm_out.table,
                                           norm_in.on_compound,
                                           norm_in.strict_mode)
    /\ npc' = "twice"
    /\ UNCHANGED <<norm_in, norm_out, crawlVars, stageVars, runVars,
                   pairVars, webVars, srcVars>>

NormNext == \/ NormalizeOnce
            \/ NormalizeAgain

SpecNorm == NormInit /\ [][NormNext]_vars

\* Two cells hold the same thing: the same text, the same number whether
\* int or float, or both nothing.
SameCell(a, b) ==
    /\ a.k = b.k
    /\ a.k = "str" => a.v = b.v
    /\ a.k = "num" => a.v[1] = b.v[1] /\ a.v[2] = b.v[2]

SameTable(s1, s2) ==
    /\ DOMAIN s1 = DOMAIN s2
    /\ \A r \in DOMAIN s1 :
          /\ DOMAIN s1[r] = DOMAIN s2[r]
          /\ \A c \in DOMAIN s1[r] : SameCell(s1[r][c], s2[r][c])

\* C15: the normalizer is idempotent: applied to a table it has normalized
\* it changes no cell; a cell that holds a number before an application
\* holds the same number after it; a cell holding "--" holds it after every
\* application.
C15_Idempotent ==
    /\ (npc \in {"once", "twice"} /\ norm_out.err = "none") =>
          \A r \in DOMAIN norm_in.table : \A c \in DOMAIN norm_in.table[r] :
             (norm_in.table[r][c].k = "num"
                 \/ norm_in.table[r][c] = Str(Placeholder))
             => SameCell(norm_out.table[r][c], norm_in.table[r][c])
    /\ npc = "twice" =>
          /\ norm_again.err = "none"
          /\ SameTable(norm_again.table, norm_out.table)

\* The data cells of the normalizer's input whose text holds the compound
\* token and is a decimal once the token is taken out.
IsCompoundDecimal(cell) ==
    /\ cell.k = "str"
    /\ StrContains(Strip(cell.v), WanYi)
    /\ PyFloat(Removed(Strip(cell.v), WanYi)).ok

\* d * 10^12 for the decimal d left when the token is taken out.
TimesTenToTwelfth(cell) ==
    LET d == PyFloat(Removed(Strip(cell.v), WanYi))
    IN  NumCell(Value(Canon(d.m, d.e + 12), 1))

\* C16 as stated: in every variant, and whatever the general parser does
\* with the text, such a data cell is normalized to d * 10^12.
C16_CompoundInEveryVariant ==
    (npc \in {"once", "twice"} /\ norm_out.err = "none") =>
        \A r \in 2..NRows(norm_in.table) :
            IsCompoundDecimal(norm_in.table[r][2])
            => SameCell(norm_out.table[r][2],
                        TimesTenToTwelfth(norm_in.table[r][2]))

\* C16, amended: such a data cell is normalized to d * 10^12 by the scraper
\* and converter variants whatever the general parser does with the text,
\* and by the table and processor variants when the general parser rejects
\* the text; when it accepts the text, these two keep the parser's value.
C16_CompoundUnlessParsed ==
    (npc \in {"once", "twice"} /\ norm_out.err = "none") =>
        \A r \in 2..NRows(norm_in.table) :
            IsCompoundDecimal(norm_in.table[r][2])
            => SameCell(norm_out.table[r][2],
                        IF /\ norm_in.variant \in {"table", "processor"}
                           /\ norm_in.on_compound.ok
                        THEN NumCell(norm_in.on_compound)
                        ELSE TimesTenToTwelfth(norm_in.table[r][2]))

\* C16 witness: the processor variant, a general parser that rejects the
\* text, and the cell "1.5" with the token normalized to 1.5 * 10^12.
C16_Witness ==
    /\ npc = "once"
    /\ norm_in.variant = "processor"
    /\ ~norm_in.on_compound.ok
    /\ NRows(norm_in.table) = 2
    /\ norm_in.table[2][2] = Str(<<49, DOT, 53>> \o WanYi)
    /\ norm_out.table[2][2] = [k |-> "num", v |-> <<15, 11, 1>>]

\* A data cell whose text the scraper's normalizer cannot read as a number.
Unparseable(cell, on_compound) ==
    /\ cell.k = "str"
    /\ Strip(cell.v) # <<>>
    /\ ~SpecialFirst(Strip(cell.v), on_compound).ok

\* C17: without strict mode a data cell that cannot be parsed keeps its
\* text and the normalizer goes on; with strict mode selected, a table
\* holding such a cell makes the normalizer fail.
C17_StrictModeAborts ==
    (npc = "once" /\ norm_in.variant = "scraper") =>
        LET bad == {r \in 2..NRows(norm_in.table) :
                       Unparseable(norm_in.table[r][2], norm_in.on_compound)}
        IN  IF norm_in.strict_mode /\ bad # {}
            THEN norm_out.err # "none"
            ELSE norm_out.err = "none" =>
                    \A r \in bad : norm_out.table[r][2] = norm_in.table[r][2]

\* C24: a section of one row (the marker row that ends a table, or a marker
\* row followed at once by another) passes through the normalizer without
\* an error and comes out as the row it was.
C24_SingleRowSectionPasses ==
    (npc # "ready" /\ NRows(norm_in.table) = 1) =>
        /\ norm_out.err = "none"
        /\ NRows(norm_out.table) = 1
        /\ norm_out.table[1][1] = norm_in.table[1][1]

\* C25: the normalizer changes no cell of row 0 and no cell of column 0,
\* and the data cells of every later row are candidates for conversion: a
\* numeral there comes out as a number.
C25_OnlyDataRegionChanges ==
    (npc # "ready" /\ norm_out.err = "none") =>
        /\ norm_out.table[1] = norm_in.table[1]
        /\ \A r \in DOMAIN norm_in.table :
              norm_out.table[r][1] = norm_in.table[r][1]
        /\ \A r \in 2..NRows(norm_in.table) :
              norm_in.table[r][2] = Str(<<CN_FIVE>>) =>
                  norm_out.table[r][2].k = "num"

(***************************************************************************)
(* The categories of one source stacked into the source's table            *)
(* (FinancialTable.get_combined_dataframe), and the tables of the sources  *)
(* aligned (processor.py, process_and_save_data).                          *)
(***************************************************************************)

\* The most sources, the most categories of a source, and the most period
\* columns of a category.
MaxSources == 2
MaxSourceCategories == 2
MaxCategoryCols == 2

\* The report periods heading a category's columns: "9" and "8".
CategoryPeriods == {<<57>>, <<56>>}

\* The table of category k of source i: a header row with the periods, one
\* data row whose values tell source, category and column apart; the column
\* 'Table' that process_and_save_data inserts at 0 holds the table's name.
CategoryTable(i, k, periods) ==
    [r \in 1..2 |->
        <<Str(<<84, 48 + k>>), Str(<<76, 47 + r>>)>>
            \o [c \in 1..Len(periods) |->
                   IF r = 1 THEN Str(periods[c])
                   ELSE Num(100 * i + 10 * k + c)]]

\* get_combined_dataframe: pd.concat(axis=0, ignore_index=True) of the
\* categories' tables, then the column 'Title' inserted at 0.
GetCombinedDataframe(category_tables, title) ==
    IF category_tables = <<>> THEN <<>>
    ELSE LET combined_df == ConcatRows(category_tables)
         IN  IF IsEmptyFrame(combined_df) THEN combined_df
             ELSE [r \in DOMAIN combined_df |-> <<title>> \o combined_df[r]]

CombineInit ==
    /\ fpc = "ready"
    /\ \E n \in 1..MaxSources :
         \E cats \in [1..n -> 1..MaxSourceCategories] :
           \E hs \in [1..n -> [1..MaxSourceCategories ->
                                 ListsOf(CategoryPeriods, 1, MaxCategoryCols)]] :
              /\ \A i \in 1..n : \A k \in 1..MaxSourceCategories :
                    k > cats[i] => hs[i][k] = <<<<57>>>>
              /\ pages_in = [i \in 1..n |->
                               [title |-> Str(<<64 + i>>),
                                periods |-> [k \in 1..cats[i] |-> hs[i][k]]]]
    /\ url_dataframes = "pending"
    /\ result_df = "pending"
    /\ split_in = Idle /\ split_out = Idle /\ assembled = Idle
    /\ CrawlIdle
    /\ RunIdle
    /\ AuxIdle

\* for financial_table in financial_tables: get_combined_dataframe().
CombineCategories ==
    /\ fpc = "ready"
    /\ url_dataframes' =
          [i \in DOMAIN pages_in |->
              GetCombinedDataframe(
                  [k \in DOMAIN pages_in[i].periods |->
                      CategoryTable(i, k, pages_in[i].periods[k])],
                  pages_in[i].title)]
    /\ fpc' = "combined"
    /\ UNCHANGED <<split_in, split_out, pages_in, assembled, result_df,
                   crawlVars, runVars, auxVars>>

\* final_df = self._merge_by_date_alignment(url_dataframes)
AlignCombined ==
    /\ fpc = "combined"
    /\ result_df' = MergeByDateAlignment(url_dataframes)
    /\ fpc' = "done"
    /\ UNCHANGED <<split_in, split_out, pages_in, assembled, url_dataframes,
                   crawlVars, runVars, auxVars>>

CombineNext == \/ CombineCategories
               \/ AlignCombined

SpecCombine == CombineInit /\ [][CombineNext]_vars

\* C29: every value stays under its own report period: wherever the final
\* dataset holds the value taken from column c of category k of source i,
\* that column of the dataset is the column of the period heading column c
\* in the category.
C29_ValuesUnderOwnPeriod ==
    fpc = "done" =>
        \A i \in DOMAIN pages_in :
          \A k \in DOMAIN pages_in[i].periods :
            \A c \in DOMAIN pages_in[i].periods[k] :
              \A r \in DOMAIN result_df :
                \A col \in DOMAIN result_df[r] :
                   result_df[r][col] = Num(100 * i + 10 * k + c) =>
                      OutColumnPeriods(result_df, url_dataframes, col)
                          = {Strip(pages_in[i].periods[k][c])}

(***************************************************************************)
(* One source page with the categories of config.tables.  Each TableConfig *)
(* names the control that switches the page to its category               *)
(* (button_selector, or None) and its table; _scrape_single_url drives the *)
(* page with the selectors written in its own body.                        *)
(***************************************************************************)

\* The most categories configured for a source.
MaxCategories == 3

\* The selectors written in _scrape_single_url: the table it waits for and
\* the control it pages with are those of the page's first category.
HARD_CODED_CATEGORY == 1

\* A selector is a tuple of one number, and an Optional[str] that is None
\* the empty tuple: ".zyzb_table .next" is <<0>>, and the button_selector
\* of category k is <<k>>.
PAGINATION == <<0>>
Button(k) == <<k>>
NoSelector == <<>>

TableConfigs(k) ==
    {[button_selector |-> b, table_selector |-> k] :
        b \in {NoSelector, Button(k)}}

SourceInit ==
    /\ spc = "start"
    /\ \E n \in 1..MaxCategories :
         config_tables \in {cfg \in [1..n -> UNION {TableConfigs(k) : k \in 1..n}] :
                         \A k \in 1..n : cfg[k] \in TableConfigs(k)}
    /\ \E last \in 0..MaxAdvances :
         view = [category |-> 0, window |-> 0, last |-> last]
    /\ shots = <<>>
    /\ clicked = <<>>
    /\ CrawlIdle
    /\ StageIdle
    /\ RunIdle
    /\ NormIdle
    /\ PairIdle
    /\ WebIdle

\* page.goto(url) and wait_for_selector(".zyzb_table .report_table .table1"):
\* the page opens on its first category, or the wait times out.
SourceLoad ==
    /\ spc = "start"
    /\ \E loads \in BOOLEAN :
         IF loads
         THEN /\ view' = [view EXCEPT !.category = HARD_CODED_CATEGORY]
              /\ spc' = "capture"
         ELSE /\ spc' = "failed"
              /\ UNCHANGED view
    /\ UNCHANGED <<config_tables, shots, clicked,
                   crawlVars, stageVars, runVars, normVars, pairVars, webVars>>

\* html_pages.append(page.content()), then the look for ".zyzb_table .next".
SourceCapture ==
    /\ spc = "capture"
    /\ shots' = Append(shots, [category |-> view.category,
                               window |-> view.window])
    /\ spc' = IF view.window < view.last THEN "click" ELSE "done"
    /\ UNCHANGED <<config_tables, view, clicked,
                   crawlVars, stageVars, runVars, normVars, pairVars, webVars>>

\* next_button.click() and wait_for_function: the next window of the same
\* category, or a timeout.
SourceClickNext ==
    /\ spc = "click"
    /\ clicked' = Append(clicked, PAGINATION)
    /\ \E advances \in BOOLEAN :
         IF advances
         THEN /\ view' = [view EXCEPT !.window = @ + 1]
              /\ spc' = "capture"
         ELSE /\ spc' = "failed"
              /\ UNCHANGED view
    /\ UNCHANGED <<config_tables, shots,
                   crawlVars, stageVars, runVars, normVars, pairVars, webVars>>

SourceNext == \/ SourceLoad
              \/ SourceCapture
              \/ SourceClickNext

SpecSource == SourceInit /\ [][SourceNext]_vars

\* The categories whose TableConfig names an activation control.
WithButton ==
    {k \in DOMAIN config_tables : config_tables[k].button_selector # NoSelector}

\* C22: for every category that configures an activation control, the
\* control is invoked before the category's first snapshot is captured, and
\* a crawl that has ended has crawled every such category.
C22_ActivatesBeforeCapture ==
    /\ \A i \in DOMAIN shots :
          shots[i].category \in WithButton =>
              Button(shots[i].category) \in Elems(clicked)
    /\ spc = "done" =>
          \A k \in WithButton : \E i \in DOMAIN shots : shots[i].category = k

(***************************************************************************)
(* The web application (web_app.py) under gunicorn with one sync worker    *)
(* (gunicorn.conf.py): requests are handled one at a time, and each        *)
(* accepted POST /scrape starts a daemon thread that runs process_urls.    *)
(***************************************************************************)

\* The most POST /scrape requests, the most URLs of one request, and the
\* seconds the clock may advance.
MaxRequests == 2
MaxRunUrls == 1
MaxSeconds == 1

\* The most URLs a request may carry.
MAX_REQUEST_URLS == 20

TaskIds == 1..MaxRequests

\* A response: its kind ("none", "400", "task_id", "file", "404") and the
\* task it is about, 0 for none.
Response(kind, task) == [kind |-> kind, task |-> task]

WebInit ==
    /\ requests = 0
    /\ response = Response("none", 0)
    /\ tasks = [t \in TaskIds |-> "absent"]
    /\ thread_pc = [t \in TaskIds |-> "none"]
    /\ task_urls = [t \in TaskIds |-> 0]
    /\ url_index = [t \in TaskIds |-> 0]
    /\ now = 0
    /\ filename = [t \in TaskIds |-> -1]
    /\ files = {}
    /\ CrawlIdle
    /\ StageIdle
    /\ RunIdle
    /\ NormIdle
    /\ PairIdle
    /\ SrcIdle

\* A second passes.
Tick ==
    /\ now < MaxSeconds
    /\ now' = now + 1
    /\ UNCHANGED <<requests, response, tasks, thread_pc, task_urls, url_index,
                   filename, files,
                   crawlVars, stageVars, runVars, normVars, pairVars,
                   srcVars>>

\* scrape(): no URLs, or more than 20 of them, is answered 400.
ScrapeRejected ==
    /\ requests < MaxRequests
    /\ \E n \in {0, MAX_REQUEST_URLS + 1} :
         /\ ~(n > 0 /\ n <= MAX_REQUEST_URLS)
         /\ response' = Response("400", 0)
    /\ requests' = requests + 1
    /\ UNCHANGED <<tasks, thread_pc, task_urls, url_index, now, filename,
                   files,
                   crawlVars, stageVars, runVars, normVars, pairVars,
                   srcVars>>

\* scrape(): the task is entered as 'processing' under tasks_lock, a thread
\* is started on process_urls and the task id is returned at once.  The
\* eight characters kept of each request's uuid4 are taken to be new.
Scrape ==
    /\ requests < MaxRequests
    /\ \E n \in 1..MaxRunUrls :
         LET task_id == requests + 1
         IN  /\ n > 0 /\ n <= MAX_REQUEST_URLS
             /\ tasks' = [tasks EXCEPT ![task_id] = "processing"]
             /\ thread_pc' = [thread_pc EXCEPT ![task_id] = "started"]
             /\ task_urls' = [task_urls EXCEPT ![task_id] = n]
             /\ response' = Response("task_id", task_id)
    /\ requests' = requests + 1
    /\ UNCHANGED <<url_index, now, filename, files,
                   crawlVars, stageVars, runVars, normVars, pairVars,
                   srcVars>>

\* What download() answers for a task's entry in tasks: 'File not ready'
\* unless the task is there with the status 'completed'.
DownloadServesUnfinished(task) == IF task = "absent" THEN "404" ELSE "file"

DownloadResponse(task) ==
    IF task = "absent" \/ task # "completed" THEN "404" ELSE "file"

\* download(task_id), for an id that may be in tasks or not.
Download ==
    /\ \E t \in TaskIds : response' = Response(DownloadResponse(tasks[t]), t)
    /\ UNCHANGED <<requests, tasks, thread_pc, task_urls, url_index, now,
                   filename, files,
                   crawlVars, stageVars, runVars, normVars, pairVars,
                   srcVars>>

\* process_urls up to scrape_data's _setup_browser(): the file name is made
\* from the clock, to the second; the thread launches a browser of its own
\* and opens a page.
SetupBrowser(t) ==
    /\ thread_pc[t] = "started"
    /\ filename' = [filename EXCEPT ![t] = now]
    /\ thread_pc' = [thread_pc EXCEPT ![t] = "crawling"]
    /\ UNCHANGED <<requests, response, tasks, task_urls, url_index, now,
                   files,
                   crawlVars, stageVars, runVars, normVars, pairVars,
                   srcVars>>

\* One turn of scrape_data's loop over the URLs: the URL is crawled, or the
\* crawl raises and the finally clause closes the browser.
ScrapeSingleUrl(t) ==
    /\ thread_pc[t] = "crawling"
    /\ url_index[t] < task_urls[t]
    /\ \E ok \in BOOLEAN :
         IF ok
         THEN /\ url_index' = [url_index EXCEPT ![t] = @ + 1]
              /\ UNCHANGED thread_pc
         ELSE /\ thread_pc' = [thread_pc EXCEPT ![t] = "raised"]
              /\ UNCHANGED url_index
    /\ UNCHANGED <<requests, response, tasks, task_urls, now, filename,
                   files,
                   crawlVars, stageVars, runVars, normVars, pairVars,
                   srcVars>>

\* The loop is over: finally: browser.close().
CloseBrowser(t) ==
    /\ thread_pc[t] = "crawling"
    /\ url_index[t] = task_urls[t]
    /\ thread_pc' = [thread_pc EXCEPT ![t] = "closed"]
    /\ UNCHANGED <<requests, response, tasks, task_urls, url_index, now,
                   filename, files,
                   crawlVars, stageVars, runVars, normVars, pairVars,
                   srcVars>>

\* The rest of process_urls.  After the crawl, scraper.run's save stage
\* ends with the final validation and, if that passes, writes the file at
\* config.output_path and returns None, on which the processor raises
\* AttributeError.  The task's status is set under tasks_lock: 'completed'
\* after a normal return, 'error' in the except clause.
FinishTask(t) ==
    /\ thread_pc[t] \in {"closed", "raised"}
    /\ LET tables == [i \in 1..task_urls[t] |-> SourceTable(i, <<<<57>>>>, 1)]
           v == IF thread_pc[t] = "raised" THEN "DataIntegrityError"
                ELSE ValidateFinalOutput(ConcatRows(tables),
                                         ExpectedFeatures(task_urls[t]))
           err == IF v # "ok" THEN v
                  ELSE ProcessorProcessAndSave(None, tables).err
       IN  /\ files' = IF v = "ok"
                       THEN files \cup {[task |-> t, file |-> filename[t]]}
                       ELSE files
           /\ tasks' = [tasks EXCEPT ![t] = Reported("web", err)]
    /\ thread_pc' = [thread_pc EXCEPT ![t] = "ended"]
    /\ UNCHANGED <<requests, response, task_urls, url_index, now, filename,
                   crawlVars, stageVars, runVars, normVars, pairVars,
                   srcVars>>

WebNext == \/ Tick
           \/ ScrapeRejected
           \/ Scrape
           \/ Download
           \/ \E t \in TaskIds : SetupBrowser(t)
           \/ \E t \in TaskIds : ScrapeSingleUrl(t)
           \/ \E t \in TaskIds : CloseBrowser(t)
           \/ \E t \in TaskIds : FinishTask(t)

SpecWeb == WebInit /\ [][WebNext]_vars

\* The runs that hold an open browser.
Crawling == {t \in TaskIds : thread_pc[t] = "crawling"}

\* C20: independent runs are serialized: at no time do two runs started by
\* separate requests drive a browsing session at the same moment.
C20_RunsSerialized == Cardinality(Crawling) <= 1

====
